---- MODULE Spec2Model ----
(***************************************************************************)
(* Model of app.py: the causality calculation, the ray interpolation of   *)
(* create_animated_diagram and the animation loop of main().              *)
(*                                                                         *)
(* Numbers.  A Python float is modelled as an extended non-negative       *)
(* rational [n |-> numerator, d |-> denominator] in lowest terms:         *)
(*   d > 0          the finite value n/d,                                  *)
(*   n = 1, d = 0   +infinity (float('inf')),                              *)
(*   n = 0, d = 0   NaN.                                                   *)
(* Finite arithmetic is exact; the special values follow IEEE 754         *)
(* (0 * inf = NaN, every ordered comparison with NaN is false).  Binary   *)
(* rounding and overflow of finite values are not modelled.               *)
(***************************************************************************)
EXTENDS Integers, FiniteSets, Sequences, TLC

VARIABLES distance, time, animation_step, is_animating, result, frame, slider

vars == <<distance, time, animation_step, is_animating, result, frame, slider>>

----------------------------------------------------------------------------
(* Bounds of the input sets                                                *)

\* distances are k * DistStep for k in 0..MaxDistK
MaxDistK == 10
\* time separations are whole seconds 0..MaxTime
MaxTime == 5
\* progress values handed to create_animated_diagram are k / ProgressGrid
ProgressGrid == 20

----------------------------------------------------------------------------
(* Float arithmetic                                                        *)

\* The arithmetic is written as functions of the float records, so that an
\* argument is evaluated once, where it is applied.

Num == [n : Nat, d : Nat]

Gcd[a \in Nat, b \in Nat] == IF b = 0 THEN a ELSE Gcd[b, a % b]

\* the float n/d in lowest terms
Frac(n, d) ==
    LET g == Gcd[n, d]
    IN  IF g = 0 THEN [n |-> 0, d |-> 0] ELSE [n |-> n \div g, d |-> d \div g]

Zero == Frac(0, 1)
One == Frac(1, 1)
Inf == Frac(1, 0)
NaN == Frac(0, 0)

IsNaN(x) == x.n = 0 /\ x.d = 0
IsInf(x) == x.n # 0 /\ x.d = 0
IsFinite(x) == x.d # 0

\* x.n * y.d - y.n * x.d after cancelling the common factors: its sign is
\* the sign of x - y
Cross[x \in Num, y \in Num] ==
    LET gn == Gcd[x.n, y.n]
        gd == Gcd[x.d, y.d]
        hn == IF gn = 0 THEN 1 ELSE gn
        hd == IF gd = 0 THEN 1 ELSE gd
    IN  (x.n \div hn) * (y.d \div hd) - (y.n \div hn) * (x.d \div hd)

\* x == y, x <= y, x < y on floats: false when an operand is NaN
EqF[x \in Num, y \in Num] == ~IsNaN(x) /\ ~IsNaN(y) /\ x = y
LeqF[x \in Num, y \in Num] == ~IsNaN(x) /\ ~IsNaN(y) /\ Cross[x, y] <= 0
LtF[x \in Num, y \in Num] == ~IsNaN(x) /\ ~IsNaN(y) /\ Cross[x, y] < 0

Eq(x, y) == EqF[x, y]
Leq(x, y) == LeqF[x, y]
Lt(x, y) == LtF[x, y]

\* x * y
MulF[x \in Num, y \in Num] ==
    IF IsNaN(x) \/ IsNaN(y) THEN NaN
    ELSE LET g1 == Gcd[x.n, y.d]
             g2 == Gcd[y.n, x.d]
             h1 == IF g1 = 0 THEN 1 ELSE g1
             h2 == IF g2 = 0 THEN 1 ELSE g2
         IN  Frac((x.n \div h1) * (y.n \div h2), (x.d \div h2) * (y.d \div h1))

Mul(x, y) == MulF[x, y]

\* x / y (y is never zero where the code divides)
DivF[x \in Num, y \in Num] == MulF[x, [n |-> y.d, d |-> y.n]]

Div(x, y) == DivF[x, y]

\* x + y
AddF[x \in Num, y \in Num] ==
    IF IsNaN(x) \/ IsNaN(y) THEN NaN
    ELSE IF IsInf(x) \/ IsInf(y) THEN Inf
    ELSE Frac(x.n * y.d + y.n * x.d, x.d * y.d)

Add(x, y) == AddF[x, y]

\* x - y for finite x >= y
SubF[x \in Num, y \in Num] == Frac(x.n * y.d - y.n * x.d, x.d * y.d)

Sub(x, y) == SubF[x, y]

----------------------------------------------------------------------------
(* Constants of the program                                                *)

\* SPEED_OF_LIGHT = 3e8, in m/s
SPEED_OF_LIGHT == Frac(300000000, 1)

\* st.session_state.animation_step += 0.02
TickStep == Frac(2, 100)

\* st.slider(..., 0.0, 1.0, value, 0.05)
SliderMin == Zero
SliderMax == One
SliderStep == Frac(5, 100)

\* the defaults of the two number inputs: value=1e9, value=5.0
DefaultDistance == Frac(1000000000, 1)
DefaultTime == Frac(5, 1)

----------------------------------------------------------------------------
(* Input sets                                                              *)

DistStep == SPEED_OF_LIGHT.n \div 3

\* non-negative distances (number_input min_value=0.0)
Distances == {Frac(k * DistStep, 1) : k \in 0..MaxDistK}

\* time separations a caller may pass, zero included
Times == {Frac(t, 1) : t \in 0..MaxTime}

\* values typed into the distance input (min_value=0.0)
InputDistances == {d \in {Zero, SPEED_OF_LIGHT, DefaultDistance} : Leq(Zero, d)}

\* values typed into the time input (min_value=0.001)
InputTimes == {t \in {One, DefaultTime} : Leq(Frac(1, 1000), t)}

\* progress values in [0, 1]
Progress == {Frac(k, ProgressGrid) : k \in 0..ProgressGrid}

\* the values the slider offers: SliderMin + k * SliderStep up to SliderMax
SliderValues ==
    {Add(SliderMin, Mul(Frac(k, 1), SliderStep)) :
        k \in 0..(Div(Sub(SliderMax, SliderMin), SliderStep).n)}

----------------------------------------------------------------------------
(* calculate_causality                                                     *)

\* the variant a missing boundary case would give: speed_ratio < SPEED_OF_LIGHT
calculate_causality_strict(d, t) ==
    IF Eq(t, Zero) THEN [is_causal |-> FALSE, speed_ratio |-> Inf]
    ELSE LET speed_ratio == Div(d, t)
         IN  [is_causal |-> Lt(speed_ratio, SPEED_OF_LIGHT),
              speed_ratio |-> speed_ratio]

\* the variant with the guard on the wrong argument: distance == 0
calculate_causality_guard(d, t) ==
    IF Eq(d, Zero) THEN [is_causal |-> FALSE, speed_ratio |-> Inf]
    ELSE LET speed_ratio == Div(d, t)
         IN  [is_causal |-> Leq(speed_ratio, SPEED_OF_LIGHT),
              speed_ratio |-> speed_ratio]

\* the variant that returns the ratio the wrong way round: c over the speed
calculate_causality_inverted(d, t) ==
    IF Eq(t, Zero) THEN [is_causal |-> FALSE, speed_ratio |-> Inf]
    ELSE LET speed_ratio == Div(SPEED_OF_LIGHT, Div(d, t))
         IN  [is_causal |-> Leq(speed_ratio, SPEED_OF_LIGHT),
              speed_ratio |-> speed_ratio]

calculate_causality(d, t) ==
    IF Eq(t, Zero) THEN [is_causal |-> FALSE, speed_ratio |-> Inf]
    ELSE LET speed_ratio == Div(d, t)
             is_causal == Leq(speed_ratio, SPEED_OF_LIGHT)
         IN  [is_causal |-> is_causal, speed_ratio |-> speed_ratio]

----------------------------------------------------------------------------
(* create_animated_diagram                                                 *)
(*                                                                         *)
(* Lengths along the path are measured in units of                        *)
(* np.linalg.norm(direction) = sqrt(73), which is irrational: the length  *)
(* q * sqrt(73) is held as q.  In that unit distance_between is 1 and     *)
(* direction_normalized has the components of direction.                  *)

event_b_pos == <<Frac(1, 1), Frac(3, 1)>>
event_a_pos == <<Frac(9, 1), Frac(6, 1)>>

direction == <<Sub(event_a_pos[1], event_b_pos[1]), Sub(event_a_pos[2], event_b_pos[2])>>
distance_between == One
direction_normalized ==
    <<Div(direction[1], distance_between), Div(direction[2], distance_between)>>

\* event_b_pos + direction_normalized * len
PosAt(len) ==
    <<Add(event_b_pos[1], Mul(direction_normalized[1], len)),
      Add(event_b_pos[2], Mul(direction_normalized[2], len))>>

\* the variant that scales the light ray like the information ray
create_animated_diagram_scaled(d, t, step) ==
    LET cc == calculate_causality(d, t)
        info_speed_factor == Div(cc.speed_ratio, SPEED_OF_LIGHT)
        light_progress == Mul(Mul(step, distance_between), info_speed_factor)
        light_pos == PosAt(light_progress)
        info_progress == Mul(Mul(step, distance_between), info_speed_factor)
        info_pos == IF Leq(info_progress, distance_between)
                    THEN PosAt(info_progress)
                    ELSE event_a_pos
    IN  [called |-> TRUE,
         animation_step |-> step,
         is_causal |-> cc.is_causal,
         speed_ratio |-> cc.speed_ratio,
         info_speed_factor |-> info_speed_factor,
         light_progress |-> light_progress,
         light_pos |-> light_pos,
         info_progress |-> info_progress,
         info_pos |-> info_pos,
         rays_drawn |-> Lt(Zero, step)]

\* the figure, as the values it is drawn from
create_animated_diagram(d, t, step) ==
    LET cc == calculate_causality(d, t)
        info_speed_factor == Div(cc.speed_ratio, SPEED_OF_LIGHT)
        light_progress == Mul(step, distance_between)
        light_pos == PosAt(light_progress)
        info_progress == Mul(Mul(step, distance_between), info_speed_factor)
        info_pos == IF Leq(info_progress, distance_between)
                    THEN PosAt(info_progress)
                    ELSE event_a_pos
    IN  [called |-> TRUE,
         animation_step |-> step,
         is_causal |-> cc.is_causal,
         speed_ratio |-> cc.speed_ratio,
         info_speed_factor |-> info_speed_factor,
         light_progress |-> light_progress,
         light_pos |-> light_pos,
         info_progress |-> info_progress,
         info_pos |-> info_pos,
         rays_drawn |-> Lt(Zero, step)]

----------------------------------------------------------------------------
(* main(): one run of the script.  Streamlit runs the script from top to   *)
(* bottom on every widget event and on st.rerun(); a run sees at most one  *)
(* widget event.                                                           *)

NoCall == [called |-> FALSE]
NoSlider == [consulted |-> FALSE]

\* the variant that compares with > 1.0
tick_gt(step) ==
    LET s == Add(step, TickStep)
    IN  IF Lt(One, s) THEN Zero ELSE s

\* the variant that wraps to the first step instead of 0.0
tick_wrap_step(step) ==
    LET s == Add(step, TickStep)
    IN  IF Leq(One, s) THEN TickStep ELSE s

\* animation_step += 0.02; if animation_step >= 1.0: animation_step = 0.0
tick(step) ==
    LET s == Add(step, TickStep)
    IN  IF Leq(One, s) THEN Zero ELSE s

\* the variant that advances in either mode
animation_logic_always(animating, step) == tick(step)

\* the step the frame is drawn with: advanced by the tick when animating
animation_logic(animating, step) == IF animating THEN tick(step) ELSE step

\* the whole script for one event: reset/toggle are the two buttons, moved
\* and value the slider's event, d and t the values of the number inputs
main(reset, toggle, moved, value, d, t) ==
    LET step1 == IF reset THEN Zero ELSE animation_step
        anim1 == IF reset THEN FALSE ELSE is_animating
        anim2 == IF toggle THEN ~anim1 ELSE anim1
        sl == IF ~anim2
              THEN [consulted |-> TRUE, moved |-> moved,
                    value |-> IF moved THEN value ELSE step1]
              ELSE NoSlider
        step2 == IF ~anim2 THEN sl.value ELSE step1
        step3 == animation_logic(anim2, step2)
    IN  /\ distance' = d
        /\ time' = t
        /\ result' = [called |-> TRUE, ret |-> calculate_causality(d, t)]
        /\ is_animating' = anim2
        /\ slider' = sl
        /\ animation_step' = step3
        /\ frame' = create_animated_diagram(d, t, step3)

\* the first run of a session: no widget event, session state initialised
Init ==
    /\ distance = DefaultDistance
    /\ time = DefaultTime
    /\ result = [called |-> TRUE, ret |-> calculate_causality(DefaultDistance, DefaultTime)]
    /\ is_animating = FALSE
    /\ slider = [consulted |-> TRUE, moved |-> FALSE, value |-> Zero]
    /\ animation_step = Zero
    /\ frame = create_animated_diagram(DefaultDistance, DefaultTime, Zero)

\* the run started by st.rerun() at the end of an animating run
Tick == is_animating /\ main(FALSE, FALSE, FALSE, Zero, distance, time)

\* "Reiniciar Animacion" pressed
PressReset == main(TRUE, FALSE, FALSE, Zero, distance, time)

\* "Iniciar/Pausar Animacion" pressed
PressToggle == main(FALSE, TRUE, FALSE, Zero, distance, time)

\* the slider moved; it is on the page only when the last run was paused
MoveSlider ==
    /\ ~is_animating
    /\ \E v \in SliderValues : v # animation_step /\ main(FALSE, FALSE, TRUE, v, distance, time)

\* a new value typed into the distance input
ChangeDistance ==
    \E d \in InputDistances : d # distance /\ main(FALSE, FALSE, FALSE, Zero, d, time)

\* a new value typed into the time input
ChangeTime ==
    \E t \in InputTimes : t # time /\ main(FALSE, FALSE, FALSE, Zero, distance, t)

Next == Tick \/ PressReset \/ PressToggle \/ MoveSlider \/ ChangeDistance \/ ChangeTime

Spec == Init /\ [][Next]_vars

\* st.rerun() always starts the next run while the animation is on
FairSpec == Spec /\ WF_vars(Tick)

----------------------------------------------------------------------------
(* The two functions called directly, on any arguments of the input sets   *)

InitCall ==
    /\ distance \in Distances
    /\ time \in Times
    /\ animation_step \in Progress
    /\ is_animating = FALSE
    /\ slider = NoSlider
    /\ result = NoCall
    /\ frame = NoCall

CallCalculate ==
    /\ result' = [called |-> TRUE, ret |-> calculate_causality(distance, time)]
    /\ UNCHANGED <<distance, time, animation_step, is_animating, frame, slider>>

CallDiagram ==
    /\ frame' = create_animated_diagram(distance, time, animation_step)
    /\ UNCHANGED <<distance, time, animation_step, is_animating, result, slider>>

NextCall == CallCalculate \/ CallDiagram

SpecCall == InitCall /\ [][NextCall]_vars

----------------------------------------------------------------------------
(* Properties                                                              *)

\* origin + f * (destination - origin): the point of the segment from
\* event B to event A at fractional distance f
SegmentPoint(f) ==
    <<Add(event_b_pos[1], Mul(Sub(event_a_pos[1], event_b_pos[1]), f)),
      Add(event_b_pos[2], Mul(Sub(event_a_pos[2], event_b_pos[2]), f))>>

\* p is a point of the segment from event B to event A, ends included
OnSegment(p) ==
    /\ Eq(Mul(Sub(p[1], event_b_pos[1]), Sub(event_a_pos[2], event_b_pos[2])),
          Mul(Sub(p[2], event_b_pos[2]), Sub(event_a_pos[1], event_b_pos[1])))
    /\ Leq(event_b_pos[1], p[1])
    /\ Leq(p[1], event_a_pos[1])

MinF(x, y) == IF Leq(x, y) THEN x ELSE y

\* C1: for distance >= 0 and timeDelta > 0 the returned requiredSpeed times
\* timeDelta is distance, isCausal is (requiredSpeed <= SPEED_OF_LIGHT), and
\* requiredSpeed == SPEED_OF_LIGHT is causal.
C1_CausalityContract ==
    (result.called /\ Lt(Zero, time)) =>
        /\ IsFinite(result.ret.speed_ratio)
        /\ Eq(Mul(result.ret.speed_ratio, time), distance)
        /\ result.ret.is_causal <=> Leq(result.ret.speed_ratio, SPEED_OF_LIGHT)
        /\ Eq(result.ret.speed_ratio, SPEED_OF_LIGHT) => result.ret.is_causal

C1_Witness ==
    /\ result.called
    /\ distance = SPEED_OF_LIGHT
    /\ time = One
    /\ result.ret = [is_causal |-> TRUE, speed_ratio |-> SPEED_OF_LIGHT]

C3_InfoOnSegmentClamped ==
    frame.called =>
        LET factor == Div(frame.speed_ratio, SPEED_OF_LIGHT)
            fraction == IF Eq(animation_step, Zero) THEN Zero
                        ELSE MinF(Mul(animation_step, factor), One)
        IN  /\ frame.info_pos = SegmentPoint(fraction)
            /\ Leq(frame.info_pos[1], event_a_pos[1])
            /\ Leq(frame.info_pos[2], event_a_pos[2])
            /\ (Eq(animation_step, One) /\ Lt(One, factor)) => frame.info_pos = event_a_pos
            /\ (IsInf(frame.speed_ratio) /\ Lt(Zero, animation_step)) =>
                   frame.info_pos = event_a_pos

\* C4: at progress 0 the light position and the information position are
\* both the origin, for every distance >= 0 and timeDelta >= 0.
C4_BothAtOriginAtZero ==
    (frame.called /\ Eq(animation_step, Zero)) =>
        /\ frame.light_pos = event_b_pos
        /\ frame.info_pos = event_b_pos

\* C5: the light position is the point of the segment at fractional distance
\* progress, whatever distance and timeDelta are; at progress 1 it is the
\* destination, and a causal information position at progress 1 is at or
\* before the destination.
C5_LightOnSegment ==
    frame.called =>
        /\ frame.light_pos = SegmentPoint(animation_step)
        /\ Eq(animation_step, One) => frame.light_pos = event_a_pos
        /\ (Eq(animation_step, One) /\ frame.is_causal) => OnSegment(frame.info_pos)

C5_Witness ==
    /\ frame.called
    /\ Eq(animation_step, One)
    /\ frame.is_causal
    /\ frame.light_pos = event_a_pos
    /\ Lt(frame.info_pos[1], event_a_pos[1])
    /\ Lt(event_b_pos[1], frame.info_pos[1])

\* C7: requiredSpeed does not decrease as distance grows (timeDelta > 0
\* fixed) and does not increase as timeDelta grows (distance > 0 fixed); so
\* a larger distance never turns a non-causal verdict causal and a larger
\* timeDelta never turns a causal verdict non-causal.
C7_Monotone ==
    (result.called /\ Lt(Zero, time)) =>
        /\ \A d2 \in Distances :
               Leq(distance, d2) =>
                   LET r2 == calculate_causality(d2, time)
                   IN  /\ Leq(result.ret.speed_ratio, r2.speed_ratio)
                       /\ r2.is_causal => result.ret.is_causal
        /\ Lt(Zero, distance) =>
               \A t2 \in Times :
                   Leq(time, t2) =>
                       LET r2 == calculate_causality(distance, t2)
                       IN  /\ Leq(r2.speed_ratio, result.ret.speed_ratio)
                           /\ result.ret.is_causal => r2.is_causal

C7_Witness ==
    /\ result.called
    /\ Lt(Zero, time)
    /\ Lt(Zero, distance)
    /\ ~result.ret.is_causal
    /\ \E t2 \in Times : Lt(time, t2) /\ calculate_causality(distance, t2).is_causal
    /\ \E d2 \in Distances : Lt(d2, distance) /\ calculate_causality(d2, time).is_causal

\* C10: for timeDelta > 0 the verdict is causal exactly when the information
\* ray is never ahead of the light ray (info_progress <= light_progress at
\* every progress in [0,1]); when it is not causal the information ray is
\* strictly ahead at every progress in (0,1], its position ahead of the light
\* position or clamped at the destination.
C10_VerdictMatchesRace ==
    (frame.called /\ Lt(Zero, time)) =>
        /\ frame.is_causal <=>
               \A p \in Progress :
                   LET f == create_animated_diagram(distance, time, p)
                   IN  Leq(f.info_progress, f.light_progress)
        /\ frame.is_causal => Leq(frame.info_progress, frame.light_progress)
        /\ (~frame.is_causal /\ Lt(Zero, animation_step)) =>
               /\ Lt(frame.light_progress, frame.info_progress)
               /\ \/ Lt(frame.light_pos[1], frame.info_pos[1])
                  \/ frame.info_pos = event_a_pos

C10_Witness ==
    /\ frame.called
    /\ Lt(Zero, time)
    /\ ~frame.is_causal
    /\ Lt(Zero, animation_step)
    /\ Lt(animation_step, One)
    /\ frame.info_pos = event_a_pos
    /\ frame.light_pos # event_a_pos

\* C6: animation_step stays in [0,1]; a run in running mode adds exactly
\* 0.02 and resets a sum >= 1.0 to 0.0 before the frame is drawn, so a frame
\* drawn in running mode has progress < 1.0.
C6_StepInRange ==
    /\ [](/\ Leq(Zero, animation_step)
          /\ Leq(animation_step, One)
          /\ is_animating => Lt(frame.animation_step, One))
    /\ [][is_animating' =>
             LET s == Add(animation_step, TickStep)
             IN  /\ Lt(s, One) => animation_step' = s
                 /\ Leq(One, s) => animation_step' = Zero]_vars

C6_Witness ==
    /\ is_animating
    /\ frame.animation_step = Zero
    /\ ~slider.consulted

\* C8: while is_animating stays true and the reruns keep coming,
\* animation_step is 0.0 again and again; between wraps it strictly
\* increases; a running-mode state always has the next run enabled.
C8_LoopsForever ==
    /\ <>[]is_animating => []<>(animation_step = Zero)
    /\ [][(is_animating /\ is_animating' /\ animation_step' # Zero) =>
              Lt(animation_step, animation_step')]_vars
    /\ [](is_animating => ENABLED Tick)

C8_Witness ==
    /\ is_animating
    /\ animation_step = Zero
    /\ ENABLED Tick

\* C9: a run that ends paused leaves animation_step at the slider's value
\* (the old value, or 0.0 after a reset, unless the slider was moved); a run
\* that ends running does not consult the slider and changes animation_step
\* only by +0.02 or to 0.0; the frame is drawn with the step the run leaves.
C9_OnlyLoopChangesProgress ==
    [][/\ ~is_animating' =>
              /\ slider'.consulted
              /\ animation_step' = slider'.value
              /\ slider'.moved => slider'.value \in SliderValues
              /\ ~slider'.moved => animation_step' \in {animation_step, Zero}
       /\ is_animating' =>
              /\ ~slider'.consulted
              /\ animation_step' \in {Add(animation_step, TickStep), Zero}
       /\ frame'.called
       /\ frame'.animation_step = animation_step']_vars

C9_Witness ==
    /\ ~is_animating
    /\ slider.consulted
    /\ slider.moved
    /\ animation_step = slider.value
    /\ Lt(Zero, animation_step)
    /\ frame.animation_step = animation_step

====
